---- MODULE Spec2Model ----
(***************************************************************************)
(* A model of the quack-protobuf wire codec: the pull reader BytesReader   *)
(* (src/src/reader.rs), the typed Writer and its bounded backend           *)
(* BytesWriter (src/src/writer.rs).                                        *)
(*                                                                         *)
(* Machine integers (u8, u32, i32, u64, i64) are modelled as the set of    *)
(* the positions of their one bits, so that a value keeps its width: an    *)
(* operation on a w-bit value intersects its result with 0..(w-1).         *)
(* Buffer bytes and cursors (usize) are naturals.                          *)
(***************************************************************************)
EXTENDS Integers, Sequences, FiniteSets, TLC

VARIABLES
    bytes,      \* the reader's input buffer (&[u8])
    start,      \* BytesReader.start
    end,        \* BytesReader.end
    scopes,     \* the active read_len calls, innermost last
    last,       \* the outcome of the last operation
    buf,        \* BytesWriter.buf
    cursor,     \* BytesWriter.cursor
    steps       \* the number of calls made so far

vars == <<bytes, start, end, scopes, last, buf, cursor, steps>>

(***************************************************************************)
(* Machine words as sets of bit positions                                  *)
(***************************************************************************)
Pow2(i) == 2 ^ i

\* the bits of a byte (u8 as u32 / as u64: the same bits in a wider word)
U8(b) == {i \in 0..7 : (b \div Pow2(i)) % 2 = 1}

\* the number a set of bit positions stands for (positions below 31 only)
RECURSIVE ToNat(_)
ToNat(s) ==
    IF s = {} THEN 0
    ELSE LET i == CHOOSE x \in s : TRUE IN Pow2(i) + ToNat(s \ {i})

\* the bits of a natural below 2^31
Bits(n) == {i \in 0..30 : (n \div Pow2(i)) % 2 = 1}

\* x << k in a w-bit word
Shl(x, k, w) == {i + k : i \in x} \cap (0..(w - 1))

\* x >> k, logical (unsigned words)
Shr(x, k) == {i - k : i \in {j \in x : j >= k}}

\* x >> k, arithmetic, in a w-bit signed word
Sar(x, k, w) ==
    Shr(x, k) \cup (IF (w - 1) \in x THEN (w - k)..(w - 1) ELSE {})

\* x ^ y
Xor(x, y) == (x \ y) \cup (y \ x)

\* the low byte of a word, as a number (v as u8)
LowByte(x) == ToNat(x \cap (0..7))

\* i32 as u64: sign extension
SignExtend32(x) == x \cup (IF 31 \in x THEN 32..63 ELSE {})

\* -(x) for x in {0, 1} in a w-bit signed word
NegBit(x, w) == IF 0 \in x THEN 0..(w - 1) ELSE {}

\* b & 0x80 != 0
Cont(b) == 7 \in U8(b)

\* b & 0x7f
Low7(b) == U8(b) \cap (0..6)

(***************************************************************************)
(* BytesReader: bytes and varints                                          *)
(***************************************************************************)
Ok(v, s) == [err |-> "none", val |-> v, start |-> s]

Err(e, s) == [err |-> e, val |-> {}, start |-> s]

\* read_u8: bytes.get(self.start), checked against the buffer, not self.end
read_u8(bs, s) ==
    IF s < Len(bs)
    THEN [err |-> "none", b |-> bs[s + 1], start |-> s + 1]
    ELSE [err |-> "UnexpectedEndOfBuffer", b |-> 0, start |-> s]

\* the loop "for _ in 0..5" of read_varint32, with n rounds left
RECURSIVE discard(_, _, _, _)
\* a variant of discard whose loop is one round short ("for _ in 0..4")
discard_short(bs, s, n, r) ==
    IF n <= 1 THEN Err("Varint", s)
    ELSE LET b == read_u8(bs, s) IN
         IF b.err # "none" THEN Err(b.err, b.start)
         ELSE IF ~Cont(b.b) THEN Ok(r, b.start)
         ELSE discard(bs, b.start, n - 1, r)

discard(bs, s, n, r) ==
    IF n = 0 THEN Err("Varint", s)
    ELSE LET b == read_u8(bs, s) IN
         IF b.err # "none" THEN Err(b.err, b.start)
         ELSE IF ~Cont(b.b) THEN Ok(r, b.start)
         ELSE discard(bs, b.start, n - 1, r)

\* a variant of Byte4 that masks with 0x7
Byte4_mask7(b) == Shl(U8(b) \cap (0..2), 28, 32)

\* ((b & 0xf) as u32) << 28: the part of byte4 that fits a u32
Byte4(b) == Shl(U8(b) \cap (0..3), 28, 32)

read_varint32(bs, s) ==
    LET b0 == read_u8(bs, s) IN
    IF b0.err # "none" THEN Err(b0.err, b0.start)
    ELSE IF ~Cont(b0.b) THEN Ok(U8(b0.b), b0.start)
    ELSE
    LET r0 == Low7(b0.b)
        b1 == read_u8(bs, b0.start) IN
    IF b1.err # "none" THEN Err(b1.err, b1.start)
    ELSE
    LET r1 == r0 \cup Shl(Low7(b1.b), 7, 32) IN
    IF ~Cont(b1.b) THEN Ok(r1, b1.start)
    ELSE
    LET b2 == read_u8(bs, b1.start) IN
    IF b2.err # "none" THEN Err(b2.err, b2.start)
    ELSE
    LET r2 == r1 \cup Shl(Low7(b2.b), 14, 32) IN
    IF ~Cont(b2.b) THEN Ok(r2, b2.start)
    ELSE
    LET b3 == read_u8(bs, b2.start) IN
    IF b3.err # "none" THEN Err(b3.err, b3.start)
    ELSE
    LET r3 == r2 \cup Shl(Low7(b3.b), 21, 32) IN
    IF ~Cont(b3.b) THEN Ok(r3, b3.start)
    ELSE
    LET b4 == read_u8(bs, b3.start) IN
    IF b4.err # "none" THEN Err(b4.err, b4.start)
    ELSE
    LET r4 == r3 \cup Byte4(b4.b) IN
    IF ~Cont(b4.b) THEN Ok(r4, b4.start)
    ELSE discard(bs, b4.start, 5, r4)

\* a variant of Join64 that shifts before it widens: r0 | (r1 << 28) | (r2 << 56)
\* in u32
Join64_u32(r0, r1, r2) == r0 \cup Shl(r1, 28, 32) \cup Shl(r2, 56, 32)

\* (r0 as u64) | ((r1 as u64) << 28) | ((r2 as u64) << 56)
Join64(r0, r1, r2) == r0 \cup Shl(r1, 28, 64) \cup Shl(r2, 56, 64)

read_varint64(bs, s) ==
    LET b0 == read_u8(bs, s) IN
    IF b0.err # "none" THEN Err(b0.err, b0.start)
    ELSE IF ~Cont(b0.b) THEN Ok(U8(b0.b), b0.start)
    ELSE
    LET r0a == Low7(b0.b)
        b1 == read_u8(bs, b0.start) IN
    IF b1.err # "none" THEN Err(b1.err, b1.start)
    ELSE
    LET r0b == r0a \cup Shl(Low7(b1.b), 7, 32) IN
    IF ~Cont(b1.b) THEN Ok(r0b, b1.start)
    ELSE
    LET b2 == read_u8(bs, b1.start) IN
    IF b2.err # "none" THEN Err(b2.err, b2.start)
    ELSE
    LET r0c == r0b \cup Shl(Low7(b2.b), 14, 32) IN
    IF ~Cont(b2.b) THEN Ok(r0c, b2.start)
    ELSE
    LET b3 == read_u8(bs, b2.start) IN
    IF b3.err # "none" THEN Err(b3.err, b3.start)
    ELSE
    LET r0 == r0c \cup Shl(Low7(b3.b), 21, 32) IN
    IF ~Cont(b3.b) THEN Ok(r0, b3.start)
    ELSE
    \* part1
    LET b4 == read_u8(bs, b3.start) IN
    IF b4.err # "none" THEN Err(b4.err, b4.start)
    ELSE
    LET r1a == Low7(b4.b) IN
    IF ~Cont(b4.b) THEN Ok(Join64(r0, r1a, {}), b4.start)
    ELSE
    LET b5 == read_u8(bs, b4.start) IN
    IF b5.err # "none" THEN Err(b5.err, b5.start)
    ELSE
    LET r1b == r1a \cup Shl(Low7(b5.b), 7, 32) IN
    IF ~Cont(b5.b) THEN Ok(Join64(r0, r1b, {}), b5.start)
    ELSE
    LET b6 == read_u8(bs, b5.start) IN
    IF b6.err # "none" THEN Err(b6.err, b6.start)
    ELSE
    LET r1c == r1b \cup Shl(Low7(b6.b), 14, 32) IN
    IF ~Cont(b6.b) THEN Ok(Join64(r0, r1c, {}), b6.start)
    ELSE
    LET b7 == read_u8(bs, b6.start) IN
    IF b7.err # "none" THEN Err(b7.err, b7.start)
    ELSE
    LET r1 == r1c \cup Shl(Low7(b7.b), 21, 32) IN
    IF ~Cont(b7.b) THEN Ok(Join64(r0, r1, {}), b7.start)
    ELSE
    \* part2
    LET b8 == read_u8(bs, b7.start) IN
    IF b8.err # "none" THEN Err(b8.err, b8.start)
    ELSE
    LET r2a == Low7(b8.b) IN
    IF ~Cont(b8.b) THEN Ok(Join64(r0, r1, r2a), b8.start)
    ELSE
    LET b9 == read_u8(bs, b8.start) IN
    IF b9.err # "none" THEN Err(b9.err, b9.start)
    ELSE
    LET r2 == r2a \cup Shl(U8(b9.b), 7, 32) IN
    IF ~Cont(b9.b) THEN Ok(Join64(r0, r1, r2), b9.start)
    ELSE Err("Varint", b9.start)

(***************************************************************************)
(* Decoding one varint with both decoders                                  *)
(***************************************************************************)
MaxVarintLen == 11

ContBytes == {128, 255}

LastBytes == {1, 127}

\* runs of continuation bytes, then nothing, a last byte, or a last byte
\* and one byte more
VarintInputs ==
    LET runs == UNION {[1..n -> ContBytes] : n \in 0..MaxVarintLen} IN
    runs
    \cup {r \o <<b>> : r \in runs, b \in LastBytes}
    \cup {r \o <<b, 255>> : r \in runs, b \in LastBytes}

NoOp == [op |-> "none"]

InitVarint ==
    /\ bytes \in VarintInputs
    /\ start \in {s \in 0..1 : s <= Len(bytes)}
    /\ end = Len(bytes)
    /\ scopes = <<>>
    /\ last = NoOp
    /\ buf = <<>>
    /\ cursor = 0
    /\ steps = 0

\* two readers at the same offset of the same buffer, one per decoder
DecodeBoth ==
    /\ last.op = "none"
    /\ last' = [op |-> "decode_both",
                r32 |-> read_varint32(bytes, start),
                r64 |-> read_varint64(bytes, start)]
    /\ UNCHANGED <<bytes, start, end, scopes, buf, cursor, steps>>

NextVarint == DecodeBoth

SpecVarint == InitVarint /\ [][NextVarint]_vars

\* C5: read_varint32 and read_varint64 started at the same offset both
\* succeed or both fail with the same error; they consume the same number
\* of bytes, and on success the 32-bit result is the 64-bit result modulo
\* 2^32; FF FF FF FF FF FF FF FF FF 01 read as an int32 is -1 (all 32 bits).
C5_TruncationParity ==
    last.op = "decode_both" =>
        /\ last.r32.err = last.r64.err
        /\ last.r32.start = last.r64.start
        /\ last.r32.err = "none" => last.r32.val = last.r64.val \cap (0..31)
        /\ (start = 0 /\ bytes = [i \in 1..10 |-> IF i = 10 THEN 1 ELSE 255])
               => (last.r32.err = "none" /\ last.r32.val = 0..31)

\* a ten-byte varint is decoded by both, and the 64-bit value has bits
\* the 32-bit value drops
C5_Witness ==
    /\ last.op = "decode_both"
    /\ last.r32.err = "none"
    /\ last.r32.start = start + 10
    /\ last.r64.val # last.r32.val
    /\ 31 \in last.r32.val

\* the offsets k < 10 at which the buffer holds a byte, counted from start,
\* whose continuation bit is clear
Terminators == {k \in 0..9 : start + k < Len(bytes) /\ ~Cont(bytes[start + k + 1])}

\* the outcome the varint framing rule gives a decoder result r
VarintFraming(r) ==
    /\ r.start - start <= 10
    /\ r.start >= start
    /\ IF Terminators # {}
       THEN LET t == CHOOSE k \in Terminators : \A j \in Terminators : k <= j IN
            r.err = "none" /\ r.start = start + t + 1
       ELSE IF Len(bytes) - start >= 10
       THEN r.err = "Varint"
       ELSE r.err = "UnexpectedEndOfBuffer"

\* C7: a varint read consumes at most 10 bytes; ten continuation bytes give
\* Varint; a buffer that ends before a byte without the continuation bit
\* gives UnexpectedEndOfBuffer; every other read succeeds.
C7_VarintFraming ==
    last.op = "decode_both" => VarintFraming(last.r32) /\ VarintFraming(last.r64)

\* both decoders have met ten continuation bytes
C7_Witness ==
    /\ last.op = "decode_both"
    /\ last.r32.err = "Varint"
    /\ last.r64.err = "Varint"
    /\ last.r32.start = start + 10

(***************************************************************************)
(* BytesReader: zig-zag reads                                              *)
(***************************************************************************)
\* a variant of ZigZagDecode that leaves the sign out: n >> 1
ZigZagDecode_nosign(n, w) == Shr(n, 1)

\* ((n >> 1) as iW) ^ -((n & 1) as iW)
ZigZagDecode(n, w) == Xor(Shr(n, 1), NegBit(n \cap {0}, w))

read_sint32(bs, s) ==
    LET n == read_varint32(bs, s) IN
    IF n.err # "none" THEN n ELSE Ok(ZigZagDecode(n.val, 32), n.start)

read_sint64(bs, s) ==
    LET n == read_varint64(bs, s) IN
    IF n.err # "none" THEN n ELSE Ok(ZigZagDecode(n.val, 64), n.start)

(***************************************************************************)
(* BytesReader: fixed-width and length-delimited reads.                    *)
(* A read returns [err, start, end]: the cursor it leaves behind.          *)
(***************************************************************************)
\* read_fixed: bytes.get(self.start..self.start + len), checked against the
\* buffer, not self.end; self.end is not touched
read_fixed(bs, s, e, len) ==
    IF s + len <= Len(bs)
    THEN [err |-> "none", start |-> s + len, end |-> e]
    ELSE [err |-> "UnexpectedEndOfBuffer", start |-> s, end |-> e]

\* read_len, entry: "let cur_end = self.end; self.end = self.start + len"
read_len_enter(s, len) == s + len

\* a variant of read_len_return that forgets "self.start = self.end"
read_len_return_nojump(s, e, cur_end) == [start |-> s, end |-> cur_end]

\* read_len, after read returned Ok: "self.start = self.end; self.end = cur_end"
read_len_return(s, e, cur_end) == [start |-> e, end |-> cur_end]

\* b.get(r.start..r.end): None when the range is reversed or leaves the buffer
SliceOk(bs, s, e) == s <= e /\ e <= Len(bs)

\* str::from_utf8 on the bytes the model's buffers hold: a byte below 0x80
\* is a character, and the bytes from 0x80 on that the buffers hold are
\* continuation bytes, which no lead byte precedes
Utf8Valid(x) == \A i \in 1..Len(x) : x[i] < 128

\* read_len_varint with the closure of read_bytes (utf8 = FALSE) or of
\* read_string (utf8 = TRUE); "?" leaves self.end at the scope's end
read_slice(bs, s, e, utf8) ==
    LET n == read_varint32(bs, s) IN
    IF n.err # "none"
    THEN [err |-> n.err, start |-> n.start, end |-> e, k |-> n.start - s,
          L |-> 0, len_ok |-> FALSE]
    ELSE
    LET len == ToNat(n.val)
        in_end == read_len_enter(n.start, len)
        k == n.start - s IN
    IF ~SliceOk(bs, n.start, in_end)
    THEN [err |-> "UnexpectedEndOfBuffer", start |-> n.start, end |-> in_end,
          k |-> k, L |-> len, len_ok |-> TRUE]
    ELSE IF utf8 /\ ~Utf8Valid(SubSeq(bs, n.start + 1, in_end))
    THEN [err |-> "Utf8", start |-> n.start, end |-> in_end, k |-> k, L |-> len,
          len_ok |-> TRUE]
    ELSE LET r == read_len_return(n.start, in_end, e) IN
         [err |-> "none", start |-> r.start, end |-> r.end, k |-> k, L |-> len,
          len_ok |-> TRUE]

read_bytes(bs, s, e) == read_slice(bs, s, e, FALSE)

read_string(bs, s, e) == read_slice(bs, s, e, TRUE)

\* read_int32: the u32 "as i32" keeps the 32 bits
read_int32(bs, s) == read_varint32(bs, s)

\* what read_map's closure holds after a step: the reader and (k, v)
map_result(err, s, e, k, v) ==
    [err |-> err, start |-> s, end |-> e, key |-> k, val |-> v]

\* 1 => k = read_key(r, bytes)?, read_key being read_string, called at s
\* with outcome r
map_key(bs, s, k, v, r) ==
    IF r.err # "none"
    THEN map_result(r.err, r.start, r.end, k, v)
    ELSE map_result("none", r.start, r.end,
                    SubSeq(bs, s + r.k + 1, s + r.k + r.L), v)

\* 2 => v = read_val(r, bytes)?, read_val being read_int32, with outcome r
map_val(e, k, v, r) ==
    IF r.err # "none"
    THEN map_result(r.err, r.start, e, k, v)
    ELSE map_result("none", r.start, e, k, r.val)

\* match t >> 3, t being the outcome of r.read_u8(bytes)?
map_match(bs, e, k, v, t) ==
    IF t.err # "none" THEN map_result(t.err, t.start, e, k, v)
    ELSE IF t.b \div 8 = 1
    THEN map_key(bs, t.start, k, v, read_string(bs, t.start, e))
    ELSE IF t.b \div 8 = 2
    THEN map_val(e, k, v, read_int32(bs, t.start))
    ELSE map_result("Map", t.start, e, k, v)

RECURSIVE map_loop(_, _, _, _, _)
\* "?" on the step's outcome x, else the next turn of the loop
map_next(bs, x) ==
    IF x.err # "none" THEN x
    ELSE map_loop(bs, x.start, x.end, x.key, x.val)

\* while !r.is_eof() { ... } for a map<string, int32>
map_loop(bs, s, e, k, v) ==
    IF s = e THEN map_result("none", s, e, k, v)
    ELSE map_next(bs, map_match(bs, e, k, v, read_u8(bs, s)))

\* read_len after the closure returned r: "?", then start and end are set
read_map_exit(cur_end, r) ==
    IF r.err # "none" THEN r
    ELSE map_result("none", read_len_return(r.start, r.end, cur_end).start,
                    read_len_return(r.start, r.end, cur_end).end,
                    r.key, r.val)

\* read_len_varint with the length's outcome n; k and v start as defaults
read_map_scope(bs, e, n) ==
    IF n.err # "none" THEN map_result(n.err, n.start, e, <<>>, {})
    ELSE read_map_exit(e, map_loop(bs, n.start,
                                   read_len_enter(n.start, ToNat(n.val)),
                                   <<>>, {}))

\* read_map(bytes, read_string, read_int32) with start = s and end = e
read_map(bs, s, e) == read_map_scope(bs, e, read_varint32(bs, s))

\* read_unknown, from "if self.end - self.start < offset" on, at start s.
\* When s > e the usize subtraction overflows: a build with overflow checks
\* panics there, a build without them wraps to a huge remainder, which no
\* offset exceeds (wraps says which build runs).
skip_unknown(s, e, offset, wraps) ==
    IF s > e
    THEN IF wraps
         THEN [err |-> "none", start |-> s + offset, end |-> e]
         ELSE [err |-> "panic", start |-> s, end |-> e]
    ELSE IF e - s < offset
    THEN [err |-> "Varint", start |-> s, end |-> e]
    ELSE [err |-> "none", start |-> s + offset, end |-> e]

\* read_unknown(tag_value): usize::try_from of the length never fails for
\* the lengths the model's buffers hold
read_unknown(bs, s, e, tag, wraps) ==
    LET wt == tag % 8 IN
    CASE wt = 0 ->
           LET r == read_varint64(bs, s) IN
           [err |-> r.err, start |-> r.start, end |-> e]
      [] wt = 1 -> skip_unknown(s, e, 8, wraps)
      [] wt = 5 -> skip_unknown(s, e, 4, wraps)
      [] wt = 2 ->
           LET r == read_varint64(bs, s) IN
           IF r.err # "none" THEN [err |-> r.err, start |-> r.start, end |-> e]
           ELSE skip_unknown(r.start, e, ToNat(r.val), wraps)
      [] wt \in {3, 4} -> [err |-> "Deprecated", start |-> s, end |-> e]
      [] OTHER -> [err |-> "UnknownWireType", start |-> s, end |-> e]

(***************************************************************************)
(* BytesWriter, the bounded backend, and the typed Writer over it.         *)
(* A writer w is [buf, cursor]; an operation returns [err, buf, cursor].   *)
(***************************************************************************)
WOk(b, c) == [err |-> "none", buf |-> b, cursor |-> c]

WErr(w) == [err |-> "UnexpectedEndOfBuffer", buf |-> w.buf, cursor |-> w.cursor]

\* self.buf[self.cursor..self.cursor + n] := the n bytes of data
Store(b, c, data) ==
    [i \in 1..Len(b) |->
        IF i > c /\ i <= c + Len(data) THEN data[i - c] ELSE b[i]]

pb_write_u8(w, x) ==
    IF Len(w.buf) - w.cursor < 1 THEN WErr(w)
    ELSE WOk(Store(w.buf, w.cursor, <<x>>), w.cursor + 1)

\* Writer::write_varint: one pb_write_u8 per byte, "?" after each
RECURSIVE write_varint(_, _)
write_varint(w, v) ==
    IF v \ (0..6) # {}
    THEN LET r == pb_write_u8(w, ToNat(v \cap (0..6)) + 128) IN
         IF r.err # "none" THEN r
         ELSE write_varint([buf |-> r.buf, cursor |-> r.cursor], Shr(v, 7))
    ELSE pb_write_u8(w, LowByte(v))

\* (v << 1) ^ (v >> (W - 1)) in a W-bit signed word
ZigZagEncode(v, w) == Xor(Shl(v, 1, w), Sar(v, w - 1, w))

\* the i32 zig-zag value is cast "as u64", which sign-extends
write_sint32(w, v) == write_varint(w, SignExtend32(ZigZagEncode(v, 32)))

write_sint64(w, v) == write_varint(w, ZigZagEncode(v, 64))

\* LE::write_u32 / write_u64: the n little-endian bytes of x
LE(x, n) == [i \in 1..n |-> ToNat(Shr(x, 8 * (i - 1)) \cap (0..7))]

\* the word whose little-endian bytes are bs
FromLE(bs) == UNION {Shl(U8(bs[i]), 8 * (i - 1), 64) : i \in 1..Len(bs)}

\* pb_write_u32, pb_write_i32, pb_write_f32: x is the 32-bit pattern
pb_write_u32(w, x) ==
    IF Len(w.buf) - w.cursor < 4 THEN WErr(w)
    ELSE WOk(Store(w.buf, w.cursor, LE(x, 4)), w.cursor + 4)

pb_write_i32(w, x) ==
    IF Len(w.buf) - w.cursor < 4 THEN WErr(w)
    ELSE WOk(Store(w.buf, w.cursor, LE(x, 4)), w.cursor + 4)

pb_write_f32(w, x) ==
    IF Len(w.buf) - w.cursor < 4 THEN WErr(w)
    ELSE WOk(Store(w.buf, w.cursor, LE(x, 4)), w.cursor + 4)

\* pb_write_u64, pb_write_i64, pb_write_f64: x is the 64-bit pattern
pb_write_u64(w, x) ==
    IF Len(w.buf) - w.cursor < 8 THEN WErr(w)
    ELSE WOk(Store(w.buf, w.cursor, LE(x, 8)), w.cursor + 8)

pb_write_i64(w, x) ==
    IF Len(w.buf) - w.cursor < 8 THEN WErr(w)
    ELSE WOk(Store(w.buf, w.cursor, LE(x, 8)), w.cursor + 8)

pb_write_f64(w, x) ==
    IF Len(w.buf) - w.cursor < 8 THEN WErr(w)
    ELSE WOk(Store(w.buf, w.cursor, LE(x, 8)), w.cursor + 8)

\* a variant of pb_write_all that copies what fits before it fails
pb_write_all_partial(w, data) ==
    IF Len(w.buf) - w.cursor < Len(data)
    THEN [err |-> "UnexpectedEndOfBuffer",
          buf |-> Store(w.buf, w.cursor, data), cursor |-> w.cursor]
    ELSE WOk(Store(w.buf, w.cursor, data), w.cursor + Len(data))

pb_write_all(w, data) ==
    IF Len(w.buf) - w.cursor < Len(data) THEN WErr(w)
    ELSE WOk(Store(w.buf, w.cursor, data), w.cursor + Len(data))

W(r) == [buf |-> r.buf, cursor |-> r.cursor]

\* Writer::write_tag: the u32 tag "as u64"
write_tag(w, tag) == write_varint(w, tag)

\* Writer::write_bytes (write_string is write_bytes of s.as_bytes())
write_bytes(w, data) ==
    LET r == write_varint(w, Bits(Len(data))) IN
    IF r.err # "none" THEN r ELSE pb_write_all(W(r), data)

write_string(w, s) == write_bytes(w, s)

\* Writer::write_int32: the i32 "as u64" extends the sign
write_int32(w, v) == write_varint(w, SignExtend32(v))

\* a closure FnMut(&mut Writer) -> Result<()>, as the call it makes
Payloads ==
    {[fn |-> "write_varint", v |-> {2, 3, 5, 8}],
     [fn |-> "write_bytes", data |-> <<7, 7>>]}
    \cup {[fn |-> "write_fixed32", v |-> FromLE(<<4, 3, 2, 1>>)]}

RunPayload(w, c) ==
    CASE c.fn = "write_varint" -> write_varint(w, c.v)
      [] c.fn = "write_bytes" -> write_bytes(w, c.data)
      [] c.fn = "write_fixed32" -> pb_write_u32(w, c.v)
      [] c.fn = "write_string" -> write_string(w, c.data)
      [] c.fn = "write_int32" -> write_int32(w, c.v)

write_with_tag(w, tag, write) ==
    LET r == write_tag(w, tag) IN
    IF r.err # "none" THEN r ELSE RunPayload(W(r), write)

\* a variant of write_map that leaves out the entry's size
write_map_nosize(w, size, tag_key, write_key, tag_val, write_val) ==
    LET r2 == write_tag(w, tag_key) IN
    IF r2.err # "none" THEN r2 ELSE
    LET r3 == RunPayload(W(r2), write_key) IN
    IF r3.err # "none" THEN r3 ELSE
    LET r4 == write_tag(W(r3), tag_val) IN
    IF r4.err # "none" THEN r4 ELSE RunPayload(W(r4), write_val)

write_map(w, size, tag_key, write_key, tag_val, write_val) ==
    LET r1 == write_varint(w, Bits(size)) IN
    IF r1.err # "none" THEN r1 ELSE
    LET r2 == write_tag(W(r1), tag_key) IN
    IF r2.err # "none" THEN r2 ELSE
    LET r3 == RunPayload(W(r2), write_key) IN
    IF r3.err # "none" THEN r3 ELSE
    LET r4 == write_tag(W(r3), tag_val) IN
    IF r4.err # "none" THEN r4 ELSE RunPayload(W(r4), write_val)

(***************************************************************************)
(* Writing a value and reading it back                                     *)
(***************************************************************************)
\* the capacity of the buffer a value is written to
CodecCap == 10

Bits64 == {0, 6, 7, 13, 14, 27, 28, 31, 32, 55, 56, 62, 63}

Bits32 == {0, 1, 6, 7, 13, 29, 30, 31}

SBits64 == {0, 1, 6, 7, 31, 32, 61, 62, 63}

CodecInputs ==
    {[op |-> "input", kind |-> "varint", v |-> x] : x \in SUBSET Bits64}
    \cup {[op |-> "input", kind |-> "sint32", v |-> x] : x \in SUBSET Bits32}
    \cup {[op |-> "input", kind |-> "sint64", v |-> x] : x \in SUBSET SBits64}

InitCodec ==
    /\ last \in CodecInputs
    /\ buf = [i \in 1..CodecCap |-> 0]
    /\ cursor = 0
    /\ bytes = <<>>
    /\ start = 0
    /\ end = 0
    /\ scopes = <<>>
    /\ steps = 0

WriteBy(kind, w, v) ==
    CASE kind = "varint" -> write_varint(w, v)
      [] kind = "sint32" -> write_sint32(w, v)
      [] kind = "sint64" -> write_sint64(w, v)

ReadBy(kind, bs, s) ==
    CASE kind = "varint" -> read_varint64(bs, s)
      [] kind = "sint32" -> read_sint32(bs, s)
      [] kind = "sint64" -> read_sint64(bs, s)

\* Writer::new(BytesWriter::new(buf)), then the typed write of last.v
Encode ==
    /\ last.op = "input"
    /\ LET r == WriteBy(last.kind, [buf |-> buf, cursor |-> cursor], last.v) IN
       /\ buf' = r.buf
       /\ cursor' = r.cursor
       /\ last' = [op |-> "encoded", kind |-> last.kind, v |-> last.v,
                   err |-> r.err]
    /\ UNCHANGED <<bytes, start, end, scopes, steps>>

\* BytesReader::from_bytes over the bytes written, then the matching read
DecodeWritten ==
    /\ last.op = "encoded"
    /\ last.err = "none"
    /\ LET bs == SubSeq(buf, 1, cursor)
           r == ReadBy(last.kind, bs, 0) IN
       /\ bytes' = bs
       /\ start' = r.start
       /\ end' = Len(bs)
       /\ last' = [op |-> "decoded", kind |-> last.kind, v |-> last.v,
                   err |-> r.err, val |-> r.val]
    /\ UNCHANGED <<scopes, buf, cursor, steps>>

NextCodec == Encode \/ DecodeWritten

SpecCodec == InitCodec /\ [][NextCodec]_vars

\* C6: write_varint(v) then read_varint64 over the bytes written returns v
\* and leaves the reader at the end of those bytes (is_eof).
C6_VarintRoundTrip ==
    /\ (last.op = "encoded" /\ last.kind = "varint") => last.err = "none"
    /\ (last.op = "decoded" /\ last.kind = "varint") =>
           /\ last.err = "none"
           /\ last.val = last.v
           /\ start = cursor
           /\ start = end

\* a value with bit 63 set has been written in ten bytes and read back
C6_Witness ==
    /\ last.op = "decoded"
    /\ last.kind = "varint"
    /\ 63 \in last.v
    /\ last.val = last.v
    /\ cursor = 10

\* C8: write_sint32(n) then read_sint32, and write_sint64(n) then
\* read_sint64, over the bytes written return n and consume exactly them.
C8_ZigZagRoundTrip ==
    /\ (last.op = "encoded" /\ last.kind \in {"sint32", "sint64"})
           => last.err = "none"
    /\ (last.op = "decoded" /\ last.kind \in {"sint32", "sint64"}) =>
           /\ last.err = "none"
           /\ last.val = last.v
           /\ start = cursor
           /\ start = end

\* a negative 32-bit value of large magnitude has made the round trip
C8_Witness ==
    /\ last.op = "decoded"
    /\ last.kind = "sint32"
    /\ last.v = {30}
    /\ last.val = last.v
    /\ start = cursor
    /\ cursor = 10

(***************************************************************************)
(* A Writer over a BytesWriter                                             *)
(***************************************************************************)
MaxWBuf == 9

MaxWrites == 2

InitWriter ==
    /\ buf \in {[i \in 1..n |-> 0] : n \in 0..MaxWBuf}
    /\ cursor = 0
    /\ last = NoOp
    /\ bytes = <<>>
    /\ start = 0
    /\ end = 0
    /\ scopes = <<>>
    /\ steps = 0

Wr == [buf |-> buf, cursor |-> cursor]

\* the length of what a call writes when nothing stops it
EncodedLen(c) ==
    LET big == [buf |-> [i \in 1..32 |-> 0], cursor |-> 0] IN
    (CASE c.fn = "write_with_tag" -> write_with_tag(big, c.tag, c.write)
       [] c.fn = "write_map" ->
            write_map(big, c.size, c.tag_key, c.write_key, c.tag_val, c.write_val)
       [] OTHER -> RunPayload(big, c)).cursor

\* the step of a backend primitive that is given the bytes data
Primitive(name, data, r) ==
    /\ steps < MaxWrites
    /\ steps' = steps + 1
    /\ buf' = r.buf
    /\ cursor' = r.cursor
    /\ last' = [op |-> name, prim |-> TRUE, data |-> data, err |-> r.err,
                pre_buf |-> buf, pre_cursor |-> cursor]
    /\ UNCHANGED <<bytes, start, end, scopes>>

\* the step of a typed write whose whole encoding has n bytes
Typed(name, n, r) ==
    /\ steps < MaxWrites
    /\ steps' = steps + 1
    /\ buf' = r.buf
    /\ cursor' = r.cursor
    /\ last' = [op |-> name, prim |-> FALSE, n |-> n, err |-> r.err,
                pre_buf |-> buf, pre_cursor |-> cursor]
    /\ UNCHANGED <<bytes, start, end, scopes>>

U32Vals == {FromLE(<<4, 3, 2, 128>>)}

U64Vals == {FromLE(<<8, 7, 6, 5, 4, 3, 2, 1>>)}

PbWriteU8 == \E x \in {200} : Primitive("pb_write_u8", <<x>>, pb_write_u8(Wr, x))

PbWriteU32 ==
    \E x \in U32Vals : Primitive("pb_write_u32", LE(x, 4), pb_write_u32(Wr, x))

PbWriteI32 ==
    \E x \in U32Vals : Primitive("pb_write_i32", LE(x, 4), pb_write_i32(Wr, x))

PbWriteF32 ==
    \E x \in U32Vals : Primitive("pb_write_f32", LE(x, 4), pb_write_f32(Wr, x))

PbWriteU64 ==
    \E x \in U64Vals : Primitive("pb_write_u64", LE(x, 8), pb_write_u64(Wr, x))

PbWriteI64 ==
    \E x \in U64Vals : Primitive("pb_write_i64", LE(x, 8), pb_write_i64(Wr, x))

PbWriteF64 ==
    \E x \in U64Vals : Primitive("pb_write_f64", LE(x, 8), pb_write_f64(Wr, x))

PbWriteAll ==
    \E d \in {<<>>, <<9, 10, 11>>} :
        Primitive("pb_write_all", d, pb_write_all(Wr, d))

WriteVarint ==
    \E v \in {{0}, {2, 3, 5, 8}, {28}} :
        LET c == [fn |-> "write_varint", v |-> v] IN
        Typed("write_varint", EncodedLen(c), write_varint(Wr, v))

WriteSint32 ==
    \E v \in {{30}} :
        LET c == [fn |-> "write_varint", v |-> SignExtend32(ZigZagEncode(v, 32))] IN
        Typed("write_sint32", EncodedLen(c), write_sint32(Wr, v))

WriteBytes ==
    \E d \in {<<>>, <<65, 66, 67, 68>>} :
        LET c == [fn |-> "write_bytes", data |-> d] IN
        Typed("write_bytes", EncodedLen(c), write_bytes(Wr, d))

WriteWithTag ==
    \E tag \in {{1, 4, 7}}, p \in Payloads :
        LET c == [fn |-> "write_with_tag", tag |-> tag, write |-> p] IN
        Typed("write_with_tag", EncodedLen(c), write_with_tag(Wr, tag, p))

WriteMap ==
    \E k \in {p \in Payloads : p.fn = "write_bytes"},
       v \in {p \in Payloads : p.fn = "write_varint"} :
        LET kt == {1, 3}
            vt == {4}
            big == [buf |-> [i \in 1..32 |-> 0], cursor |-> 0]
            size == write_with_tag(W(write_with_tag(big, kt, k)), vt, v).cursor
            c == [fn |-> "write_map", size |-> size, tag_key |-> kt,
                  write_key |-> k, tag_val |-> vt, write_val |-> v] IN
        Typed("write_map", EncodedLen(c), write_map(Wr, size, kt, k, vt, v))

NextWriter ==
    \/ PbWriteU8
    \/ PbWriteU32
    \/ PbWriteI32
    \/ PbWriteF32
    \/ PbWriteU64
    \/ PbWriteI64
    \/ PbWriteF64
    \/ PbWriteAll
    \/ WriteVarint
    \/ WriteSint32
    \/ WriteBytes
    \/ WriteWithTag
    \/ WriteMap

SpecWriter == InitWriter /\ [][NextWriter]_vars

\* C9: a backend primitive given N bytes either stores exactly them at
\* [cursor, cursor + N), changes no other byte and advances cursor by N, or,
\* when cursor + N exceeds the buffer, fails with UnexpectedEndOfBuffer and
\* changes nothing; the cursor stays within 0..buffer.len.
C9_PrimitiveFrame ==
    /\ 0 <= cursor
    /\ cursor <= Len(buf)
    /\ (last.op # "none" /\ last.prim) =>
        LET n == Len(last.data)
            c == last.pre_cursor IN
        /\ Len(buf) = Len(last.pre_buf)
        /\ IF c + n > Len(buf)
           THEN /\ last.err = "UnexpectedEndOfBuffer"
                /\ buf = last.pre_buf
                /\ cursor = c
           ELSE /\ last.err = "none"
                /\ cursor = c + n
                /\ \A i \in 1..Len(buf) :
                      buf[i] = IF i > c /\ i <= c + n
                               THEN last.data[i - c]
                               ELSE last.pre_buf[i]

\* a run of bytes did not fit behind bytes written before, and was refused
C9_Witness ==
    /\ last.op = "pb_write_all"
    /\ last.err = "UnexpectedEndOfBuffer"
    /\ Len(last.data) = 3
    /\ cursor > 0
    /\ cursor < Len(buf)
    /\ \E i \in 1..cursor : buf[i] # 0

\* C10: a typed write whose encoding is longer than the remaining capacity
\* fails with UnexpectedEndOfBuffer and leaves buffer and cursor as they
\* were before the call.
C10_TypedWriteAtomic ==
    (last.op # "none" /\ ~last.prim
        /\ last.n > Len(last.pre_buf) - last.pre_cursor) =>
        /\ last.err = "UnexpectedEndOfBuffer"
        /\ buf = last.pre_buf
        /\ cursor = last.pre_cursor

(***************************************************************************)
(* Writing a map<string, int32> entry and reading it back                  *)
(***************************************************************************)
\* the capacity of the buffer an entry is written to
MapCap == 16

\* field 1, LENGTH_DELIMITED and field 2, VARINT
TagKey == Bits(10)

TagVal == Bits(16)

MapKeys == {<<>>, <<107>>, <<65, 66>>, <<0, 127>>}

MapVals == {{}, {1, 3, 5}, {7}, {31}, 0..31}

\* the fields an entry holds: both, the key alone, the value alone, none
MapInputs ==
    {[op |-> "input", shape |-> sh, key |-> k, val |-> v] :
        sh \in {"both", "key", "val", "neither"}, k \in MapKeys, v \in MapVals}

InitMap ==
    /\ last \in MapInputs
    /\ buf = [i \in 1..MapCap |-> 0]
    /\ cursor = 0
    /\ bytes = <<>>
    /\ start = 0
    /\ end = 0
    /\ scopes = <<>>
    /\ steps = 0

KeyWrite(k) == [fn |-> "write_string", data |-> k]

ValWrite(v) == [fn |-> "write_int32", v |-> v]

\* the number of bytes write_varint(v) writes: one per 7 bits up to the
\* highest bit set
VarintLen(v) ==
    IF v = {} THEN 1
    ELSE ((CHOOSE i \in v : \A j \in v : j <= i) \div 7) + 1

\* the serialized length of the tag + payload pairs the entry holds; the
\* tags and the key's length take one byte each
EntrySize(c) ==
    (IF c.shape \in {"both", "key"} THEN 2 + Len(c.key) ELSE 0)
    + (IF c.shape \in {"both", "val"}
       THEN 1 + VarintLen(SignExtend32(c.val))
       ELSE 0)

\* the entry: write_map for both fields; an entry that leaves a field out
\* is its size followed by the write_with_tag of the fields it holds
WriteEntry(w, c) ==
    IF c.shape = "both"
    THEN write_map(w, EntrySize(c), TagKey, KeyWrite(c.key),
                   TagVal, ValWrite(c.val))
    ELSE
    LET r == write_varint(w, Bits(EntrySize(c))) IN
    IF r.err # "none" \/ c.shape = "neither" THEN r
    ELSE IF c.shape = "key"
    THEN write_with_tag(W(r), TagKey, KeyWrite(c.key))
    ELSE write_with_tag(W(r), TagVal, ValWrite(c.val))

EncodeMap ==
    /\ last.op = "input"
    /\ LET r == WriteEntry(Wr, last) IN
       /\ buf' = r.buf
       /\ cursor' = r.cursor
       /\ last' = [op |-> "map_encoded", shape |-> last.shape,
                   key |-> last.key, val |-> last.val, err |-> r.err]
    /\ UNCHANGED <<bytes, start, end, scopes, steps>>

\* BytesReader::from_bytes over the written bytes, then read_map
DecodeMap ==
    /\ last.op = "map_encoded"
    /\ last.err = "none"
    /\ LET bs == SubSeq(buf, 1, cursor)
           r == read_map(bs, 0, Len(bs)) IN
       /\ bytes' = bs
       /\ start' = r.start
       /\ end' = r.end
       /\ last' = [op |-> "map_decoded", shape |-> last.shape,
                   key |-> last.key, val |-> last.val, err |-> r.err,
                   rkey |-> r.key, rval |-> r.val]
    /\ UNCHANGED <<buf, cursor, scopes, steps>>

NextMap ==
    \/ EncodeMap
    \/ DecodeMap

SpecMap == InitMap /\ [][NextMap]_vars

\* C13: a map entry written by write_map with the tags of fields 1 and 2
\* and the exact size of its two tag + payload pairs is read back by
\* read_map, with the matching decoders, as the key and the value written,
\* the reader's start at the end of the written bytes; a field the entry
\* leaves out is read as the default of its type.
C13_MapRoundTrip ==
    last.op = "map_decoded" =>
        /\ last.err = "none"
        /\ last.rkey = (IF last.shape \in {"both", "key"}
                        THEN last.key ELSE <<>>)
        /\ last.rval = (IF last.shape \in {"both", "val"}
                        THEN last.val ELSE {})
        /\ start = cursor
        /\ start = Len(bytes)

C13_Witness ==
    /\ last.op = "map_decoded"
    /\ last.shape = "both"
    /\ bytes = <<5, 10, 1, 107, 16, 42>>
    /\ last.rkey = <<107>>
    /\ last.rval = {1, 3, 5}
    /\ start = 6

(***************************************************************************)
(* A BytesReader over a buffer: the calls a decoder makes, in any order.   *)
(* A length-delimited read whose inner reader is the caller's (from_reader *)
(* of a message, the key and value readers of a map) is a scope: the call  *)
(* enters it, the inner reader's calls are steps of their own, and the     *)
(* return leaves it.  An error leaves every scope at once, as "?" does.    *)
(***************************************************************************)
MaxBuf == 2

MaxSteps == 3

ByteVals == {0, 1, 2, 8, 16, 129}

Buffers ==
    UNION {[1..n -> ByteVals] : n \in 0..MaxBuf}
    \cup {<<1, 2, 0, 0, 0>>, <<4, 8, 1, 16, 2>>, <<0, 1, 2, 3, 4, 5, 6, 7, 8>>,
          <<2, 129, 2>>}

Init ==
    /\ bytes \in Buffers
    /\ start = 0
    /\ end = Len(bytes)
    /\ scopes = <<>>
    /\ last = NoOp
    /\ buf = <<>>
    /\ cursor = 0
    /\ steps = 0

\* the caller's code runs: at the top, in from_reader, or in a map's key or
\* value reader
InCaller ==
    /\ steps < MaxSteps
    /\ ~(last.op # "none" /\ last.err = "panic")
    /\ scopes # <<>> => scopes[Len(scopes)].pc \in {"body", "key", "val"}

Top == scopes[Len(scopes)]

Pop == SubSeq(scopes, 1, Len(scopes) - 1)

\* a read that opens no scope has returned r
Plain(name, need, r) ==
    /\ start' = r.start
    /\ end' = r.end
    /\ scopes' = IF r.err = "none" THEN scopes ELSE <<>>
    /\ last' = [op |-> name, err |-> r.err, need |-> need,
                pre_start |-> start, pre_end |-> end]
    /\ steps' = steps + 1
    /\ UNCHANGED <<bytes, buf, cursor>>

\* next_tag, read_int32, read_uint32, read_sint32, read_bool, read_enum
ReadVarint32 ==
    /\ InCaller
    /\ LET r == read_varint32(bytes, start) IN
       Plain("read_varint32", 1, [err |-> r.err, start |-> r.start, end |-> end])

\* read_int64, read_uint64, read_sint64
ReadVarint64 ==
    /\ InCaller
    /\ LET r == read_varint64(bytes, start) IN
       Plain("read_varint64", 1, [err |-> r.err, start |-> r.start, end |-> end])

\* read_fixed32, read_sfixed32, read_float
ReadFixed32 ==
    /\ InCaller
    /\ Plain("read_fixed32", 4, read_fixed(bytes, start, end, 4))

\* read_fixed64, read_sfixed64, read_double
ReadFixed64 ==
    /\ InCaller
    /\ Plain("read_fixed64", 8, read_fixed(bytes, start, end, 8))

ReadToEnd ==
    /\ InCaller
    /\ Plain("read_to_end", 0, [err |-> "none", start |-> end, end |-> end])

\* the tags of field 1 with each of the eight wire types
UnknownTags == 8..15

ReadUnknown ==
    /\ InCaller
    /\ \E tag \in UnknownTags, wraps \in BOOLEAN :
          LET r == read_unknown(bytes, start, end, tag, wraps) IN
          /\ start' = r.start
          /\ end' = r.end
          /\ scopes' = IF r.err = "none" THEN scopes ELSE <<>>
          /\ last' = [op |-> "read_unknown", err |-> r.err, tag |-> tag,
                      pre_start |-> start, pre_end |-> end]
    /\ steps' = steps + 1
    /\ UNCHANGED <<bytes, buf, cursor>>

\* a length-delimited read whose closure is the library's has returned r
Slice(name, r) ==
    /\ start' = r.start
    /\ end' = r.end
    /\ scopes' = IF r.err = "none" THEN scopes ELSE <<>>
    /\ last' = [op |-> name, err |-> r.err, S |-> start, k |-> r.k, L |-> r.L,
                pre_end |-> end, inner_start |-> start + r.k,
                len_ok |-> r.len_ok]
    /\ steps' = steps + 1
    /\ UNCHANGED <<bytes, buf, cursor>>

ReadBytes ==
    /\ InCaller
    /\ Slice("read_bytes", read_bytes(bytes, start, end))

ReadString ==
    /\ InCaller
    /\ Slice("read_string", read_string(bytes, start, end))

\* read_len is entered with length len after k bytes of length varint
Enter(name, pc, k, len) ==
    /\ scopes' = Append(scopes, [fn |-> name, pc |-> pc, cur_end |-> end,
                                 S |-> start, k |-> k, L |-> len])
    /\ start' = start + k
    /\ end' = read_len_enter(start + k, len)
    /\ last' = [op |-> "enter", err |-> "none", fn |-> name]

\* read_len_varint: the length varint, then read_len
EnterVarint(name, pc) ==
    /\ InCaller
    /\ LET n == read_varint32(bytes, start) IN
       IF n.err # "none"
       THEN /\ start' = n.start
            /\ end' = end
            /\ scopes' = <<>>
            /\ last' = [op |-> name, err |-> n.err, S |-> start,
                        k |-> n.start - start, L |-> 0, pre_end |-> end,
                        inner_start |-> n.start, len_ok |-> FALSE]
       ELSE Enter(name, pc, n.start - start, ToNat(n.val))
    /\ steps' = steps + 1
    /\ UNCHANGED <<bytes, buf, cursor>>

ReadMessage == EnterVarint("read_message", "body")

ReadMap == EnterVarint("read_map", "loop")

\* read_message_by_len: the caller passes the length of a message that the
\* current scope holds
ReadMessageByLen ==
    /\ InCaller
    /\ \E len \in {n \in {0, 2} : start + n <= end} :
          Enter("read_message_by_len", "body", 0, len)
    /\ steps' = steps + 1
    /\ UNCHANGED <<bytes, buf, cursor>>

ReadMessageWithoutLen ==
    /\ InCaller
    /\ Enter("read_message_without_len", "body", 0, Len(bytes))
    /\ steps' = steps + 1
    /\ UNCHANGED <<bytes, buf, cursor>>

\* read_len after its closure returned Ok
Return ==
    LET r == read_len_return(start, end, Top.cur_end) IN
    /\ start' = r.start
    /\ end' = r.end
    /\ scopes' = Pop
    /\ last' = [op |-> Top.fn, err |-> "none", S |-> Top.S, k |-> Top.k,
                L |-> Top.L, pre_end |-> Top.cur_end, inner_start |-> start,
                len_ok |-> TRUE]
    /\ UNCHANGED <<bytes, buf, cursor, steps>>

\* M::from_reader returns Ok
FromReaderReturn ==
    /\ scopes # <<>>
    /\ Top.pc = "body"
    /\ Return

\* read_map's closure: "while !r.is_eof()" is over
MapReturn ==
    /\ scopes # <<>>
    /\ Top.pc = "loop"
    /\ start = end
    /\ Return

\* read_map's closure: one more round, "let t = r.read_u8(bytes)?; match t >> 3"
MapNextTag ==
    /\ scopes # <<>>
    /\ Top.pc = "loop"
    /\ start # end
    /\ LET t == read_u8(bytes, start)
           f == t.b \div 8 IN
       /\ start' = t.start
       /\ IF t.err # "none"
          THEN /\ scopes' = <<>>
               /\ last' = [op |-> "read_map", err |-> t.err, S |-> Top.S,
                           k |-> Top.k, L |-> Top.L, pre_end |-> Top.cur_end,
                           inner_start |-> start, len_ok |-> TRUE]
          ELSE IF f \in {1, 2}
          THEN /\ scopes' = [scopes EXCEPT ![Len(scopes)].pc =
                                IF f = 1 THEN "key" ELSE "val"]
               /\ last' = [op |-> "map_tag", err |-> "none", field |-> f,
                           inner_start |-> start]
          ELSE /\ scopes' = <<>>
               /\ last' = [op |-> "read_map", err |-> "Map", field |-> f,
                           S |-> Top.S, k |-> Top.k, L |-> Top.L,
                           pre_end |-> Top.cur_end, inner_start |-> start,
                           len_ok |-> TRUE]
    /\ UNCHANGED <<bytes, end, buf, cursor, steps>>

\* read_key or read_val returns Ok
MapFieldReturn ==
    /\ scopes # <<>>
    /\ Top.pc \in {"key", "val"}
    /\ scopes' = [scopes EXCEPT ![Len(scopes)].pc = "loop"]
    /\ last' = [op |-> "map_field", err |-> "none"]
    /\ UNCHANGED <<bytes, start, end, buf, cursor, steps>>

Next ==
    \/ ReadVarint32
    \/ ReadVarint64
    \/ ReadFixed32
    \/ ReadFixed64
    \/ ReadToEnd
    \/ ReadUnknown
    \/ ReadBytes
    \/ ReadString
    \/ ReadMessage
    \/ ReadMap
    \/ ReadMessageByLen
    \/ ReadMessageWithoutLen
    \/ FromReaderReturn
    \/ MapReturn
    \/ MapNextTag
    \/ MapFieldReturn

Spec == Init /\ [][Next]_vars

LenDelimited == {"read_bytes", "read_string", "read_message", "read_map"}

\* C1: the reader cursor satisfies 0 <= start <= end <= buffer.len in every
\* reachable state, inside a length-delimited scope and after it.  The
\* states a failed call leaves behind are not even counted here: the
\* invariant is stated for the states in which no call has failed.
C1_CursorInvariant ==
    (last.op = "none" \/ last.err = "none") =>
        /\ 0 <= start
        /\ start <= end
        /\ end <= Len(bytes)

\* C2: a length-delimited read that starts at S, decodes a length L from k
\* bytes and returns Ok leaves start = S + k + L and end as it was before
\* the call, whatever the inner reader consumed.
C2_ScopeContainment ==
    (last.op \in LenDelimited /\ last.err = "none") =>
        /\ start = last.S + last.k + last.L
        /\ end = last.pre_end

\* a message whose reader consumed less than its length has returned
C2_Witness ==
    /\ last.op = "read_message"
    /\ last.err = "none"
    /\ last.L > 0
    /\ last.inner_start < start
    /\ start <= Len(bytes)
    /\ scopes = <<>>

\* C3: a fixed-width read, or the first byte of a varint read, fails with
\* UnexpectedEndOfBuffer whenever fewer bytes than it needs remain in the
\* current scope (end - start), also when the scope ends before the buffer.
C3_ShortScopeFails ==
    (/\ last.op \in {"read_fixed32", "read_fixed64",
                     "read_varint32", "read_varint64"}
     /\ last.pre_end - last.pre_start < last.need)
        => last.err = "UnexpectedEndOfBuffer"

\* C4: a length-delimited read whose decoded length L exceeds the bytes
\* that remain in the scope after the length varint fails with
\* UnexpectedEndOfBuffer, whatever the inner reader does.
C4_LengthBeyondScopeFails ==
    (/\ last.op \in LenDelimited
     /\ last.len_ok
     /\ last.L > last.pre_end - (last.S + last.k))
        => last.err = "UnexpectedEndOfBuffer"

\* C11: read_unknown(tag) goes by tag & 7: 0 consumes one 64-bit varint; 1
\* and 5 advance start by 8 and 4; 2 decodes a length L and advances by a
\* further L; where fewer bytes than that remain before end, 1, 5 and 2 fail
\* with Varint and do not pass end; 3 and 4 fail with Deprecated, 6 and 7
\* with UnknownWireType, start and end unchanged; every success leaves
\* start <= end.
C11_ReadUnknown ==
    last.op = "read_unknown" =>
        LET wt == last.tag % 8
            S == last.pre_start
            E == last.pre_end
            v == read_varint64(bytes, S)
            n == IF wt = 1 THEN 8 ELSE 4 IN
        /\ wt = 0 => (last.err = v.err /\ start = v.start)
        /\ wt \in {1, 5} =>
              IF E - S < n
              THEN last.err = "Varint" /\ start = S
              ELSE last.err = "none" /\ start = S + n
        /\ (wt = 2 /\ v.err # "none") => last.err = v.err
        /\ (wt = 2 /\ v.err = "none") =>
              IF E - v.start < ToNat(v.val)
              THEN last.err = "Varint" /\ start <= E
              ELSE last.err = "none" /\ start = v.start + ToNat(v.val)
        /\ wt \in {3, 4} => (last.err = "Deprecated" /\ start = S /\ end = E)
        /\ wt \in {6, 7} =>
              (last.err = "UnknownWireType" /\ start = S /\ end = E)
        /\ last.err = "none" => start <= end

\* C12: when the next tag of a map entry has a field number n other than 1
\* and 2, read_map fails with Map(n), n being the field number of the whole
\* varint tag (tag >> 3), tags of more than one byte included; and a tag
\* handed to the key or the value decoder has field number 1 or 2.
C12_MapFieldNumber ==
    LET tg == read_varint32(bytes, last.inner_start)
        n == ToNat(Shr(tg.val, 3)) IN
    /\ (last.op = "read_map" /\ last.err = "Map" /\ tg.err = "none") =>
           last.field = n
    /\ last.op = "map_tag" =>
           (tg.err = "none" /\ n = last.field /\ n \in {1, 2})

\* C14: what write_sint32(n) writes is the base-128 varint of the 32-bit
\* zig-zag value (n << 1) XOR (n >> 31) as an unsigned 32-bit integer, so
\* at most 5 bytes, for every 32-bit n.
C14_Sint32Varint ==
    (last.op = "encoded" /\ last.kind = "sint32") =>
        LET r == write_varint([buf |-> [i \in 1..CodecCap |-> 0], cursor |-> 0],
                              ZigZagEncode(last.v, 32)) IN
        /\ last.err = "none"
        /\ SubSeq(buf, 1, cursor) = SubSeq(r.buf, 1, r.cursor)
        /\ cursor <= 5

\* C15: start never decreases: after every step of the reader (a typed
\* read, a read inside a length-delimited scope, the exit of a scope,
\* read_unknown, read_to_end) start is at least what it was before the step.
C15_StartMonotonic == [][start' >= start]_vars

\* C16: entering a length-delimited scope only shrinks end (the inner end
\* start + L is at most the enclosing end), and every exit from the scope,
\* the successful return and the error of the inner reader alike
\* (UnexpectedEndOfBuffer in read_bytes, Utf8 in read_string, Map in
\* read_map), leaves end at the value it had before the call.
C16_EndFrame ==
    /\ last.op = "enter" => end <= Top.cur_end
    /\ last.op \in LenDelimited
                   \cup {"read_message_by_len", "read_message_without_len"} =>
           end = last.pre_end

====
